---- MODULE Spec2Model ----
(***************************************************************************)
(* Model of src/interface.js: the palette loader (initializeInterface,    *)
(* a three-attempt fetch loop with exponential backoff) and the palette   *)
(* presenter (createPaletteButtons, applyPalette, the click listeners and *)
(* the fallback message of the catch block).                              *)
(*                                                                         *)
(* Two specifications share the state:                                     *)
(*   Spec           the page as it runs: DOMContentLoaded starts           *)
(*                  initializeInterface once, the fetches, timers and the  *)
(*                  body parse settle one by one, the user clicks.         *)
(*   SpecPresenter  createPaletteButtons called any number of times with   *)
(*                  any palette sequence on any prior container content    *)
(*                  and theme, with clicks in between.                     *)
(***************************************************************************)
EXTENDS Integers, Sequences, FiniteSets, TLC

\* ------------------------------------------------------------------ bounds
\* longest palette sequence a response body or a caller supplies
MaxPalettes == 2
\* number of distinct palettes the sequences are drawn from
NumPalettes == 2

\* --------------------------------------------------------------- constants
\* the loop bound off by one: a fourth attempt
maxRetries_four == 3 + 1

\* const maxRetries = 3
maxRetries == 3

\* HTTP statuses a response may carry; response.ok is status in 200..299
Statuses == {200, 204, 404, 500}

\* ------------------------------------------------------------------- values
\* A palette object of pallets.json: a name and four colour values.
Palette(n) ==
  [name |-> 10 * n, primary |-> 10 * n + 1, secondary |-> 10 * n + 2,
   text |-> 10 * n + 3, background |-> 10 * n + 4]

PalettePool == {Palette(n) : n \in 1..NumPalettes}

\* a null entry of the parsed list: reading .name of it throws a TypeError
Null == [null |-> TRUE]

SeqsUpTo(S, n) == UNION {[1..m -> S] : m \in 0..n}

\* the palette sequences P of well-formed palettes
PaletteSeqs == SeqsUpTo(PalettePool, MaxPalettes)

\* a parsed JSON value: an array of entries, or something without forEach
JsArray(items) == [isArray |-> TRUE, items |-> items]
JsObject == [isArray |-> FALSE, items |-> <<>>]

\* every value response.json() may resolve with
JsonValues ==
  {JsArray(s) : s \in SeqsUpTo(PalettePool \cup {Null}, MaxPalettes)}
    \cup {JsObject}

\* the four CSS custom properties of document.documentElement.style;
\* 0 stands for a property that was never set
InitialTheme == [primary |-> 0, secondary |-> 0, text |-> 0, background |-> 0]

\* the <p> element the catch block writes
ErrorMessage == [kind |-> "error"]
\* markup the host page put in the container before the script ran
Placeholder == [kind |-> "other"]

\* the value of `response` before the first fetch resolves (undefined)
NoResponse == [status |-> 0, ok |-> FALSE]
Response(status) == [status |-> status, ok |-> status \in 200..299]

VARIABLES
  pc,              \* position of initializeInterface
  i,               \* the loop variable of the retry loop
  response,        \* the local `response`
  error,           \* what the catch block caught, "none" if nothing
  attempts,        \* number of fetch(PALETTES_FILE) calls issued
  inFlight,        \* fetches issued and not yet settled
  timers,          \* delays handed to setTimeout, in call order
  pending,         \* timers armed and not yet fired
  containerExists, \* document.getElementById(BUTTONS_CONTAINER_ID) # null
  container,       \* children of the container element, in order
  theme,           \* the four style variables of the document root
  calls,           \* the last two calls of createPaletteButtons
  activated        \* index of the control clicked last since the last
                   \* createPaletteButtons call, 0 if none

vars == <<pc, i, response, error, attempts, inFlight, timers, pending,
          containerExists, container, theme, calls, activated>>

loaderVars == <<pc, i, response, error, attempts, inFlight, timers, pending>>

\* ---------------------------------------------------------------- presenter
\* the --color-background line left out: three of the four variables set
applyPalette_partial(style, palette) ==
  [style EXCEPT !.primary = palette.primary,
                !.secondary = palette.secondary,
                !.text = palette.text]

\* applyPalette: four setProperty calls on the root style
applyPalette(style, palette) ==
  [style EXCEPT !.primary = palette.primary,
                !.secondary = palette.secondary,
                !.text = palette.text,
                !.background = palette.background]

\* every listener sharing the loop's last palette instead of its own
BoundPalette_shared(palettes, k) == palettes[Len(palettes)]

\* the palette the click listener of the k-th button closes over
BoundPalette(palettes, k) == palettes[k]

\* one iteration of the forEach: the button built for entry k
MkButton(palettes, k) ==
  [kind |-> "button",
   textContent |-> palettes[k].name,
   color |-> palettes[k].primary,
   borderColor |-> palettes[k].primary,
   onclick |-> BoundPalette(palettes, k)]

\* the container not cleared: new buttons are appended to what was there
ClearContainer_keeps(content) == content

\* container.innerHTML = ''
ClearContainer(content) == <<>>

\* palettes.length > 0: whether the first palette is applied on load
AppliesDefault(items) == Len(items) > 0

\* the last palette applied on load instead of the first
DefaultPalette_last(items) == items[Len(items)]

\* the palette applied on load
DefaultPalette(items) == items[1]

Min(S) == CHOOSE x \in S : \A y \in S : x <= y

\* createPaletteButtons(palettes) run on a document whose container exists
\* or not, holds `content`, and whose root style is `style`.  The result is
\* the document after the call and whether the call threw.
createPaletteButtons(palettes, exists, content, style) ==
  IF ~exists
  THEN [container |-> content, theme |-> style, threw |-> FALSE]
  ELSE IF ~palettes.isArray
  THEN [container |-> ClearContainer(content), theme |-> style, threw |-> TRUE]
  ELSE
    LET items == palettes.items
        bad == {k \in 1..Len(items) : items[k] = Null}
        n == IF bad = {} THEN Len(items) ELSE Min(bad) - 1
        buttons == ClearContainer(content) \o [k \in 1..n |-> MkButton(items, k)]
    IN IF bad # {}
       THEN [container |-> buttons, theme |-> style, threw |-> TRUE]
       ELSE [container |-> buttons,
             theme |-> IF AppliesDefault(items)
                       THEN applyPalette(style, DefaultPalette(items))
                       ELSE style,
             threw |-> FALSE]

\* the fallback message appended to the content instead of replacing it
catchHandler_appends(exists, content) ==
  IF exists THEN Append(content, ErrorMessage) ELSE content

\* the failure only logged, no fallback message written
catchHandler_silent(exists, content) == content

\* the `if(container)` test left out: the message is written regardless
catchHandler_unguarded(exists, content) == <<ErrorMessage>>

\* the catch block: the fallback message replaces the container's content
catchHandler(exists, content) ==
  IF exists THEN <<ErrorMessage>> ELSE content

\* the record of one createPaletteButtons call
CallRecord(palettes, before, r) ==
  [P |-> palettes, before |-> before, container |-> r.container,
   theme |-> r.theme, threw |-> r.threw]

\* keep the last two calls
Log(log, rec) ==
  IF Len(log) < 2 THEN Append(log, rec) ELSE <<log[2], rec>>

\* ------------------------------------------------------------------- loader
\* Math.pow(2, i) * 100
Backoff(n) == (2 ^ n) * 100

\* the loop never left early: a wait follows a success too
Breaks_never(resp) == FALSE

\* if (response.ok) break;
Breaks(resp) == resp.ok

\* i < maxRetries
LoopContinues(n) == n < maxRetries

Init ==
  /\ pc = "idle"
  /\ i = 0
  /\ response = NoResponse
  /\ error = "none"
  /\ attempts = 0
  /\ inFlight = 0
  /\ timers = <<>>
  /\ pending = 0
  /\ containerExists \in BOOLEAN
  /\ container \in (IF containerExists THEN {<<>>, <<Placeholder>>} ELSE {<<>>})
  /\ theme = InitialTheme
  /\ calls = <<>>
  /\ activated = 0

\* the listener bound to an event that fires again (readystatechange):
\* initializeInterface starts once more after it has finished
DOMContentLoaded_refires ==
  /\ pc \in {"idle", "done"}
  /\ i' = 0
  /\ pc' = "fetch"
  /\ attempts' = attempts + 1
  /\ inFlight' = inFlight + 1
  /\ UNCHANGED <<response, error, timers, pending, containerExists, container,
                 theme, calls, activated>>

\* the DOMContentLoaded listener: initializeInterface runs up to the first
\* await, which issues the first fetch
DOMContentLoaded ==
  /\ pc = "idle"
  /\ i' = 0
  /\ LoopContinues(0)
  /\ pc' = "fetch"
  /\ attempts' = attempts + 1
  /\ inFlight' = inFlight + 1
  /\ UNCHANGED <<response, error, timers, pending, containerExists, container,
                 theme, calls, activated>>

\* the fallback message written after each failed attempt instead of after
\* the last one
FetchResolve_showsMessage(status) ==
  /\ pc = "fetch"
  /\ inFlight' = inFlight - 1
  /\ response' = Response(status)
  /\ IF Breaks(response')
     THEN /\ pc' = "json"
          /\ UNCHANGED <<timers, pending, container>>
     ELSE /\ pc' = "wait"
          /\ timers' = Append(timers, Backoff(i))
          /\ pending' = pending + 1
          /\ container' = catchHandler(containerExists, container)
  /\ UNCHANGED <<i, error, attempts, containerExists, theme, calls, activated>>

\* await fetch(...) resolves with a response of the given status
FetchResolve(status) ==
  /\ pc = "fetch"
  /\ inFlight' = inFlight - 1
  /\ response' = Response(status)
  /\ IF Breaks(response')
     THEN \* !response.ok is false: response.json() is called
          /\ pc' = "json"
          /\ UNCHANGED <<timers, pending>>
     ELSE /\ pc' = "wait"
          /\ timers' = Append(timers, Backoff(i))
          /\ pending' = pending + 1
  /\ UNCHANGED <<i, error, attempts, containerExists, container, theme, calls,
                 activated>>

\* await fetch(...) rejects: the exception leaves the loop for the catch block
FetchReject ==
  /\ pc = "fetch"
  /\ inFlight' = inFlight - 1
  /\ error' = "transport"
  /\ container' = catchHandler(containerExists, container)
  /\ pc' = "done"
  /\ UNCHANGED <<i, response, attempts, timers, pending, containerExists,
                 theme, calls, activated>>

\* setTimeout given a callback that never calls resolve: the timer fires
\* and the awaited promise stays pending
TimerFire_neverResolves ==
  /\ pc = "wait"
  /\ pending = 1
  /\ pending' = 0
  /\ UNCHANGED <<pc, i, response, error, attempts, inFlight, timers,
                 containerExists, container, theme, calls, activated>>

\* the backoff timer fires: i++, then the next attempt or, past the last
\* one, the throw of `Failed to fetch ... after 3 attempts`
TimerFire ==
  /\ pc = "wait"
  /\ pending' = pending - 1
  /\ i' = i + 1
  /\ IF LoopContinues(i')
     THEN /\ pc' = "fetch"
          /\ attempts' = attempts + 1
          /\ inFlight' = inFlight + 1
          /\ UNCHANGED <<error, container>>
     ELSE /\ pc' = "done"
          /\ error' = "status"
          /\ container' = catchHandler(containerExists, container)
          /\ UNCHANGED <<attempts, inFlight>>
  /\ UNCHANGED <<response, timers, containerExists, theme, calls, activated>>

\* await response.json() resolves with the parsed value, which goes to
\* createPaletteButtons; an exception of it reaches the catch block
JsonResolve(data) ==
  /\ pc = "json"
  /\ LET r == createPaletteButtons(data, containerExists, container, theme)
     IN /\ calls' = Log(calls, CallRecord(data, theme, r))
        /\ theme' = r.theme
        /\ IF r.threw
           THEN /\ error' = "render"
                /\ container' = catchHandler(containerExists, r.container)
           ELSE /\ error' = error
                /\ container' = r.container
  /\ activated' = 0
  /\ pc' = "done"
  /\ UNCHANGED <<i, response, attempts, inFlight, timers, pending,
                 containerExists>>

\* await response.json() rejects: the body is not valid JSON
JsonReject ==
  /\ pc = "json"
  /\ error' = "parse"
  /\ container' = catchHandler(containerExists, container)
  /\ pc' = "done"
  /\ UNCHANGED <<i, response, attempts, inFlight, timers, pending,
                 containerExists, theme, calls, activated>>

\* the user clicks the k-th child of the container, a palette button
Click(k) ==
  /\ k \in 1..Len(container)
  /\ container[k].kind = "button"
  /\ theme' = applyPalette(theme, container[k].onclick)
  /\ activated' = k
  /\ UNCHANGED <<loaderVars, containerExists, container, calls>>

Next ==
  \/ DOMContentLoaded
  \/ \E status \in Statuses : FetchResolve(status)
  \/ FetchReject
  \/ TimerFire
  \/ \E data \in JsonValues : JsonResolve(data)
  \/ JsonReject
  \/ \E k \in 1..MaxPalettes : Click(k)

Spec == Init /\ [][Next]_vars

\* The event loop settles what was started: a fetch in flight resolves or
\* rejects, an armed timer fires, a body being read parses or fails to.
\* Nothing obliges the user to click, nor the document to finish parsing.
Fairness ==
  /\ WF_vars((\E status \in Statuses : FetchResolve(status)) \/ FetchReject)
  /\ WF_vars(TimerFire)
  /\ WF_vars((\E data \in JsonValues : JsonResolve(data)) \/ JsonReject)

SpecFair == Spec /\ Fairness

\* ------------------------------------------------- the presenter on its own
\* the themes a page may carry before a call: unset, or some palette's
PriorThemes ==
  {InitialTheme} \cup {applyPalette(InitialTheme, p) : p \in PalettePool}

InitPresenter ==
  /\ pc = "host"
  /\ i = 0
  /\ response = NoResponse
  /\ error = "none"
  /\ attempts = 0
  /\ inFlight = 0
  /\ timers = <<>>
  /\ pending = 0
  /\ containerExists \in BOOLEAN
  /\ container \in (IF containerExists
                    THEN {<<>>, <<Placeholder>>, <<ErrorMessage>>}
                    ELSE {<<>>})
  /\ theme \in PriorThemes
  /\ calls = <<>>
  /\ activated = 0

\* a call createPaletteButtons(P) with a sequence of well-formed palettes
Render(P) ==
  /\ pc = "host"
  /\ LET r == createPaletteButtons(JsArray(P), containerExists, container, theme)
     IN /\ calls' = Log(calls, CallRecord(JsArray(P), theme, r))
        /\ theme' = r.theme
        /\ container' = r.container
  /\ activated' = 0
  /\ UNCHANGED <<loaderVars, containerExists>>

NextPresenter ==
  \/ \E P \in PaletteSeqs : Render(P)
  \/ \E k \in 1..MaxPalettes : Click(k)

SpecPresenter == InitPresenter /\ [][NextPresenter]_vars

\* ------------------------------------------------------------------ claims
\* the four colour values of a palette, as a theme
ColorsOf(p) ==
  [primary |-> p.primary, secondary |-> p.secondary, text |-> p.text,
   background |-> p.background]

\* the most recent createPaletteButtons call
LastCall == calls[Len(calls)]

\* C1: when the container exists, right after createPaletteButtons(P) with a
\* non-empty P (no click since) the container holds exactly Len(P)
\* children, the k-th a button labelled P[k].name, and the four style
\* variables equal the colours of P[1], whatever the container held and
\* whatever the theme was before the call.
C1_RenderNonEmpty ==
  (containerExists /\ calls # <<>> /\ activated = 0) =>
    LET P == LastCall.P.items
    IN P # <<>> =>
         /\ Len(container) = Len(P)
         /\ \A k \in 1..Len(P) :
              /\ container[k].kind = "button"
              /\ container[k].textContent = P[k].name
         /\ theme = ColorsOf(P[1])

C1_Witness ==
  /\ containerExists
  /\ calls # <<>>
  /\ activated = 0
  /\ Len(LastCall.P.items) = 2
  /\ LastCall.P.items[1] # LastCall.P.items[2]
  /\ Len(container) = 2
  /\ theme = ColorsOf(LastCall.P.items[1])
  /\ LastCall.before # theme
  /\ LastCall.before # InitialTheme

\* C2: after createPaletteButtons(P) the k-th control is bound to P[k], and
\* the theme is that of the control activated last, or of P[1] when none
\* was activated since the call; this holds across clicks and across
\* repeated calls.
C2_ActiveTheme ==
  (containerExists /\ calls # <<>>) =>
    LET P == LastCall.P.items
    IN /\ Len(container) = Len(P)
       /\ \A k \in 1..Len(P) : container[k].onclick = P[k]
       /\ activated \in 0..Len(P)
       /\ P # <<>> =>
            theme = ColorsOf(P[IF activated = 0 THEN 1 ELSE activated])

C2_Witness ==
  /\ containerExists
  /\ Len(calls) = 2
  /\ calls[1].P # calls[2].P
  /\ Len(LastCall.P.items) = 2
  /\ LastCall.P.items[1] # LastCall.P.items[2]
  /\ activated = 2
  /\ theme = ColorsOf(LastCall.P.items[2])

\* C3: the loader issues at most 3 fetches, never has two fetches in flight
\* nor a fetch in flight while a backoff timer is armed, and a response of
\* any non-success status leads to the same step: a wait, with nothing
\* shown and nothing reported.
C3_Sequential ==
  /\ [](/\ attempts <= 3
        /\ inFlight + pending <= 1)
  /\ [][/\ attempts' > attempts => inFlight = 0 /\ pending' = 0
        /\ \A status \in Statuses :
             (FetchResolve(status) /\ status \notin 200..299) =>
               /\ pc' = "wait"
               /\ Len(timers') = Len(timers) + 1
               /\ inFlight' = 0
               /\ UNCHANGED <<error, attempts, container, theme, calls>>]_vars

C3_Witness ==
  /\ attempts = 3
  /\ inFlight = 1
  /\ Len(timers) = 2
  /\ response.status = 500

\* C4: once a response is ok no fetch is issued and no timer is armed any
\* more: the loader is parsing or has finished, and it has issued as many
\* fetches as the loop ran iterations and armed as many timers as attempts
\* failed before; with the first attempt ok that is one fetch and no wait.
C4_NoRetryAfterSuccess ==
  /\ [](response.ok =>
          /\ pc \in {"json", "done"}
          /\ inFlight = 0
          /\ pending = 0
          /\ attempts = i + 1
          /\ Len(timers) = i
          /\ (i = 0 => attempts = 1 /\ timers = <<>>))
  /\ [][response.ok => attempts' = attempts /\ timers' = timers]_vars

C4_Witness ==
  /\ response.ok
  /\ i = 0
  /\ pc = "done"
  /\ error = "none"
  /\ attempts = 1
  /\ timers = <<>>
  /\ container # <<>>

\* C5: waits happen only between one attempt and the next, so when the
\* loader ends after three attempts failed by status it has waited 100 and
\* then 200 and nothing else.
C5_WaitsOnlyBetweenAttempts ==
  (pc = "done" /\ error = "status") =>
    /\ attempts = 3
    /\ timers = <<100, 200>>

\* C6: a fetch that rejects is retried like a non-success status, so the
\* loader ends with a transport error only after all 3 attempts were made.
C6_TransportErrorRetried ==
  (pc = "done" /\ error = "transport") => attempts = 3

\* C7: when all 3 attempts failed the loader ends in failure, and if the
\* container exists it holds the error message and nothing else: no prior
\* child, no control; createPaletteButtons never ran and the theme is the
\* one the page started with.
C7_ExhaustedShowsError ==
  (pc = "done" /\ attempts = 3 /\ ~response.ok) =>
    /\ error \in {"status", "transport"}
    /\ calls = <<>>
    /\ theme = InitialTheme
    /\ containerExists => container = <<ErrorMessage>>

C7_Witness ==
  /\ pc = "done"
  /\ attempts = 3
  /\ error = "status"
  /\ containerExists
  /\ container = <<ErrorMessage>>

\* C8: a body that fails to parse ends the loader at once: no fetch and no
\* timer follows, the container (if it exists) holds only the error
\* message, createPaletteButtons never ran and the theme is untouched.
C8_ParseFailureTerminal ==
  /\ [](error = "parse" =>
          /\ pc = "done"
          /\ response.ok
          /\ inFlight = 0
          /\ pending = 0
          /\ calls = <<>>
          /\ theme = InitialTheme
          /\ (containerExists => container = <<ErrorMessage>>))
  /\ [][(error = "parse" \/ error' = "parse") =>
          attempts' = attempts /\ timers' = timers]_vars

C8_Witness ==
  /\ error = "parse"
  /\ pc = "done"
  /\ containerExists
  /\ container = <<ErrorMessage>>
  /\ attempts = 2

\* C9: createPaletteButtons([]) leaves the container empty and the four
\* style variables as they were before the call, and does not throw.
C9_RenderEmpty ==
  [][Render(<<>>) =>
       /\ container' = <<>>
       /\ theme' = theme
       /\ error' = "none"
       /\ ~calls'[Len(calls')].threw]_vars

C9_Witness ==
  /\ containerExists
  /\ Len(calls) = 2
  /\ LastCall.P = JsArray(<<>>)
  /\ calls[1].container # <<>>
  /\ container = <<>>
  /\ theme = LastCall.before
  /\ theme # InitialTheme
  /\ theme # calls[1].theme

\* C10: two createPaletteButtons calls in a row with the same sequence,
\* with or without clicks between them, leave the same children (number,
\* labels, order, bound palettes) and the same theme as the first call
\* left.
C10_Idempotent ==
  (Len(calls) = 2 /\ calls[1].P = calls[2].P) =>
    /\ calls[2].container = calls[1].container
    /\ calls[2].theme = calls[1].theme
    /\ container = calls[1].container
    /\ (activated = 0 => theme = calls[1].theme)

C10_Witness ==
  /\ containerExists
  /\ Len(calls) = 2
  /\ calls[1].P = calls[2].P
  /\ Len(calls[2].P.items) = 2
  /\ calls[2].before # calls[1].theme
  /\ activated = 0
  /\ Len(container) = 2

\* C11: when the container element is absent nothing is shown and nothing
\* is applied: the container has no children and the theme is the initial
\* one in every state; a createPaletteButtons call returns without
\* throwing, leaves the theme as it found it, for a non-empty list too, and
\* does not reach the catch block; the catch block writes nothing.
C11_ContainerMissing ==
  ~containerExists =>
    /\ container = <<>>
    /\ theme = InitialTheme
    /\ calls # <<>> =>
         /\ ~LastCall.threw
         /\ LastCall.theme = LastCall.before
         /\ LastCall.container = <<>>
         /\ error = "none"

C11_Witness ==
  /\ ~containerExists
  /\ pc = "done"
  /\ error = "none"
  /\ calls # <<>>
  /\ Len(LastCall.P.items) = 2
  /\ LastCall.P.items[1] # Null
  /\ container = <<>>
  /\ theme = InitialTheme

\* the entries of the parsed list that are palettes
LoadedPalettes ==
  IF calls = <<>> THEN {}
  ELSE {LastCall.P.items[k] : k \in 1..Len(LastCall.P.items)} \ {Null}

\* C12: in every state the four style variables are either all at their
\* initial values or all four those of one palette of the parsed list.
C12_ThemeWholesale ==
  \/ theme = InitialTheme
  \/ \E p \in LoadedPalettes : theme = ColorsOf(p)

C12_Witness ==
  /\ pc = "done"
  /\ Len(container) = 2
  /\ activated = 2
  /\ LastCall.P.items[1] # LastCall.P.items[2]
  /\ theme = ColorsOf(LastCall.P.items[2])
  /\ theme # LastCall.theme

\* the children of the container that are palette buttons
Buttons == {k \in 1..Len(container) : container[k].kind = "button"}

\* C13: every failure of initializeInterface (attempts exhausted, a
\* rejected fetch, a body that does not parse, an exception thrown by
\* createPaletteButtons on a value that is not a list or holds a null
\* entry) is caught: the run ends, and if the container exists it holds
\* the error message alone, none of the buttons built before the
\* exception; an exception of createPaletteButtons always reaches the
\* catch block.
C13_NoFaultEscapes ==
  /\ error # "none" =>
       /\ pc = "done"
       /\ Buttons = {}
       /\ containerExists => container = <<ErrorMessage>>
  /\ (calls # <<>> /\ LastCall.threw) => error = "render"
  /\ error \in {"none", "status", "transport", "parse", "render"}

C13_Witness ==
  /\ pc = "done"
  /\ error = "render"
  /\ containerExists
  /\ LastCall.threw
  /\ Len(LastCall.container) = 1
  /\ LastCall.container[1].kind = "button"
  /\ container = <<ErrorMessage>>

\* C14: under SpecFair, once initializeInterface has started it eventually
\* ends; it ends either rendered (createPaletteButtons returned normally,
\* nothing caught) or failed (something caught, and createPaletteButtons
\* not called or thrown), never both; after the end no fetch is issued, no
\* timer is armed and the outcome does not change.
C14_RunsToCompletion ==
  /\ (pc # "idle") ~> (pc = "done")
  /\ [](pc = "done" =>
          /\ inFlight = 0
          /\ pending = 0
          /\ (error = "none" => calls # <<>> /\ ~LastCall.threw)
          /\ (error # "none" => calls = <<>> \/ LastCall.threw))
  /\ [][pc = "done" =>
          /\ pc' = "done"
          /\ attempts' = attempts
          /\ timers' = timers
          /\ error' = error
          /\ calls' = calls]_vars

C14_Witness ==
  /\ pc = "done"
  /\ attempts = 3
  /\ response.ok
  /\ error = "none"
  /\ timers = <<100, 200>>
  /\ Len(container) = 1

\* initializeInterface is between its start and its end
Loading == pc \in {"fetch", "wait", "json"}

\* C15: while initializeInterface is loading, the container holds what the
\* page put there and the theme is the initial one; a step that leaves it
\* loading changes neither; the container and the theme change only in the
\* step that ends the run (render or catch block) or, after the end, the
\* theme alone by a click on a button.
C15_LoadingHasNoSideEffect ==
  /\ []((pc = "idle" \/ Loading) =>
          /\ theme = InitialTheme
          /\ calls = <<>>
          /\ container \in {<<>>, <<Placeholder>>})
  /\ [][Loading' => container' = container /\ theme' = theme]_vars
  /\ [][(container' # container \/ theme' # theme) =>
          \/ Loading /\ pc' = "done"
          \/ /\ pc = "done"
             /\ container' = container
             /\ activated' \in Buttons]_vars

C15_Witness ==
  /\ pc = "fetch"
  /\ attempts = 3
  /\ containerExists
  /\ container = <<Placeholder>>
  /\ theme = InitialTheme

\* C16: before the DOMContentLoaded listener runs nothing has been fetched,
\* armed, rendered or caught; initializeInterface, once started, is never
\* started again; createPaletteButtons is called at most once and after
\* the end of the run the container and the outcome stay as they are.
C16_InitializedOnce ==
  /\ [](pc = "idle" =>
          /\ attempts = 0
          /\ inFlight = 0
          /\ timers = <<>>
          /\ calls = <<>>
          /\ error = "none")
  /\ [](Len(calls) <= 1)
  /\ [][pc # "idle" => pc' # "idle" /\ ~(pc' = "fetch" /\ i' = 0)]_vars
  /\ [][pc = "done" => UNCHANGED <<loaderVars, container, calls>>]_vars

C16_Witness ==
  /\ pc = "done"
  /\ attempts = 2
  /\ Len(calls) = 1
  /\ error = "none"
  /\ activated = 1
  /\ Len(container) = 2

\* C17: the container never holds a button and the error message together;
\* buttons exist only once an ok response was parsed and rendered without
\* exception; once something was caught there is no button, no click is
\* possible and the theme stays the initial one.
C17_ControlsXorError ==
  /\ [](/\ Buttons # {} => \A k \in 1..Len(container) : container[k] # ErrorMessage
        /\ Buttons # {} =>
             /\ pc = "done"
             /\ response.ok
             /\ error = "none"
             /\ calls # <<>>
             /\ ~LastCall.threw
        /\ error # "none" =>
             /\ Buttons = {}
             /\ theme = InitialTheme
             /\ \A k \in 1..MaxPalettes : ~ENABLED Click(k))
  /\ [][error # "none" => theme' = theme]_vars

C17_Witness ==
  /\ pc = "done"
  /\ error = "render"
  /\ ~LastCall.P.isArray
  /\ containerExists
  /\ container = <<ErrorMessage>>
  /\ theme = InitialTheme

====
